---- MODULE Spec2Model ----
(***************************************************************************)
(* A model of cbnuchatbot.py: the SQLite table `resources`, the search     *)
(* history file, and the handlers of the command-line loop (main) and of   *)
(* the graphical form (run_gui / gui_search).                              *)
(*                                                                         *)
(* Text is modelled as a sequence of characters; a character is a string.  *)
(* A Hangul syllable is written as its romanisation in one string          *)
(* ("do", "seo", "gwan" for the three syllables of the library keyword):   *)
(* it is one caseless character.  A locator is a text of one character.    *)
(*                                                                         *)
(* One action is one handler run to its end: one pass of main's loop, one  *)
(* press of the search button.  Left out, as they touch neither the table  *)
(* nor the history file: webbrowser.open, the LANG toggle, the phone book, *)
(* and the list suggest_keywords returns (the model keeps only whether it  *)
(* was called).  Rows of equal count come out of ORDER BY count DESC in    *)
(* rowid order.  In SpecFault a statement inside a try block may raise;    *)
(* init_db, which has no try block, is not made to fail.                   *)
(*                                                                         *)
(* nInit and seen are history variables: they record what has happened     *)
(* and no handler reads them.                                              *)
(***************************************************************************)
EXTENDS Naturals, Sequences, FiniteSets

VARIABLES
  pc,            \* where the process is: "start", "cli", "gui", "done"
  initial_data,  \* the module-level seed list
  resources,     \* the rows of table resources, in rowid order
  history,       \* the lines of HISTORY_FILE
  nInit,         \* how many times this process has run init_db
  last,          \* what the last handler was given and what it showed
  seen           \* per keyword, the highest count shown since the last init_db

vars == <<pc, initial_data, resources, history, nInit, last, seen>>

(***************************************************************************)
(* Bounds of the model.                                                    *)
(***************************************************************************)
MaxCount == 3
MaxLog == 2
MaxLogTop == 4
MaxLogFault == 1

(***************************************************************************)
(* Text helpers: str.strip(), str.lower(), and SQLite's LIKE.              *)
(***************************************************************************)
UpperChars == <<"A","B","C","D","E","F","G","H","I","J","K","L","M",
                "N","O","P","Q","R","S","T","U","V","W","X","Y","Z">>
LowerChars == <<"a","b","c","d","e","f","g","h","i","j","k","l","m",
                "n","o","p","q","r","s","t","u","v","w","x","y","z">>

LowerChar(c) ==
  IF \E i \in DOMAIN UpperChars : UpperChars[i] = c
  THEN LowerChars[CHOOSE i \in DOMAIN UpperChars : UpperChars[i] = c]
  ELSE c

\* str.lower()
Lower(s) == [i \in DOMAIN s |-> LowerChar(s[i])]

IsSpace(c) == c \in {" ", "\t"}

RECURSIVE LStrip(_)
LStrip(s) == IF s # <<>> /\ IsSpace(Head(s)) THEN LStrip(Tail(s)) ELSE s

RECURSIVE RStrip(_)
RStrip(s) ==
  IF s # <<>> /\ IsSpace(s[Len(s)]) THEN RStrip(SubSeq(s, 1, Len(s) - 1)) ELSE s

\* str.strip()
Strip(s) == RStrip(LStrip(s))

\* SQLite's LIKE folds the case of ASCII letters only.
SqlFold(c) == LowerChar(c)

\* A broken LIKE that compares characters exactly.
RECURSIVE LikeBinary(_, _)
LikeBinary(p, s) ==
  IF p = <<>> THEN s = <<>>
  ELSE IF Head(p) = "%"
       THEN LikeBinary(Tail(p), s) \/ (s # <<>> /\ LikeBinary(p, Tail(s)))
  ELSE IF s = <<>> THEN FALSE
  ELSE IF Head(p) = "_" THEN LikeBinary(Tail(p), Tail(s))
  ELSE Head(p) = Head(s) /\ LikeBinary(Tail(p), Tail(s))

\* s LIKE p, with no ESCAPE: % is any run of characters, _ is any one
\* character, any other character matches itself up to ASCII case.
RECURSIVE Like(_, _)
Like(p, s) ==
  IF p = <<>> THEN s = <<>>
  ELSE IF Head(p) = "%"
       THEN Like(Tail(p), s) \/ (s # <<>> /\ Like(p, Tail(s)))
  ELSE IF s = <<>> THEN FALSE
  ELSE IF Head(p) = "_" THEN Like(Tail(p), Tail(s))
  ELSE SqlFold(Head(p)) = SqlFold(Head(s)) /\ Like(Tail(p), Tail(s))

(***************************************************************************)
(* The table and its statements.                                           *)
(***************************************************************************)
\* A row as INSERT makes it: count DEFAULT 0, tag DEFAULT ''.
NewRow(kw, url) == [keyword |-> kw, url |-> url, count |-> 0, tag |-> <<>>]

HasKeyword(table, kw) == \E i \in DOMAIN table : table[i].keyword = kw

\* The table without its UNIQUE constraint.
UniqueDropped(table, kw) == FALSE

\* keyword TEXT UNIQUE NOT NULL, under the default BINARY collation: a row
\* of this very keyword stands in the way of another.
UniqueViolated(table, kw) == HasKeyword(table, kw)

\* INSERT OR REPLACE in place of INSERT OR IGNORE: a later pair wins.
InsertOrReplace(table, kw, url) ==
  IF HasKeyword(table, kw)
  THEN [i \in DOMAIN table |->
          IF table[i].keyword = kw THEN NewRow(kw, url) ELSE table[i]]
  ELSE Append(table, NewRow(kw, url))

\* INSERT OR IGNORE INTO resources(keyword, url): the UNIQUE constraint on
\* keyword (BINARY collation) makes a second row of the keyword a no-op.
InsertOrIgnore(table, kw, url) ==
  IF UniqueViolated(table, kw) THEN table ELSE Append(table, NewRow(kw, url))

RECURSIVE InsertMany(_, _)
InsertMany(table, pairs) ==
  IF pairs = <<>> THEN table
  ELSE InsertMany(InsertOrIgnore(table, Head(pairs)[1], Head(pairs)[2]),
                  Tail(pairs))

\* init_db: DROP TABLE IF EXISTS, CREATE TABLE, executemany over the seed.
InitDb(seed) == InsertMany(<<>>, seed)

PairOf(row) == <<row.keyword, row.url>>

Project(rows, f(_)) == [i \in DOMAIN rows |-> f(rows[i])]

\* keyword LIKE '%query%'
Contains(keyword, query) == Like(<<"%">> \o query \o <<"%">>, keyword)

\* An UPDATE whose WHERE compares with LIKE: it also bumps case variants.
UpdateCountLike(table, kw) ==
  [i \in DOMAIN table |->
     IF Like(kw, table[i].keyword)
     THEN [table[i] EXCEPT !.count = @ + 1] ELSE table[i]]

\* UPDATE resources SET count = count + 1 WHERE keyword = ?
UpdateCount(table, kw) ==
  [i \in DOMAIN table |->
     IF table[i].keyword = kw
     THEN [table[i] EXCEPT !.count = @ + 1] ELSE table[i]]

\* for kw, url in matches: update_count(kw)
RECURSIVE UpdateAll(_, _)
UpdateAll(table, matches) ==
  IF matches = <<>> THEN table
  ELSE UpdateAll(UpdateCount(table, Head(matches)[1]), Tail(matches))

\* DELETE FROM resources WHERE keyword = ?
DeleteRow(table, kw) == SelectSeq(table, LAMBDA r : r.keyword # kw)

\* The tag written with INSERT OR REPLACE: the row is made anew.
SetTagReplace(table, kw, tag) ==
  [i \in DOMAIN table |->
     IF table[i].keyword = kw
     THEN [NewRow(kw, table[i].url) EXCEPT !.tag = tag] ELSE table[i]]

\* UPDATE resources SET tag = ? WHERE keyword = ?
SetTag(table, kw, tag) ==
  [i \in DOMAIN table |->
     IF table[i].keyword = kw THEN [table[i] EXCEPT !.tag = tag] ELSE table[i]]

\* SELECT keyword, url FROM resources WHERE tag = ?
ByTag(table, tag) == Project(SelectSeq(table, LAMBDA r : r.tag = tag), PairOf)

CountOf(row) == <<row.keyword, row.count>>

\* The place of row r in ORDER BY count DESC: after the rows that rank no
\* lower. Rows of equal count stay in rowid order.
RECURSIVE InsertByCount(_, _)
InsertByCount(sorted, r) ==
  IF sorted = <<>> THEN <<r>>
  ELSE IF Head(sorted).count >= r.count
       THEN <<Head(sorted)>> \o InsertByCount(Tail(sorted), r)
       ELSE <<r>> \o sorted

\* ORDER BY count, the DESC left out.
RECURSIVE OrderByCountAsc(_)
OrderByCountAsc(table) ==
  IF table = <<>> THEN <<>>
  ELSE LET rest == OrderByCountAsc(Tail(table))
       IN SelectSeq(rest, LAMBDA r : r.count < Head(table).count)
          \o <<Head(table)>>
          \o SelectSeq(rest, LAMBDA r : r.count >= Head(table).count)

RECURSIVE OrderByCountDesc(_)
OrderByCountDesc(table) ==
  IF table = <<>> THEN <<>>
  ELSE InsertByCount(OrderByCountDesc(SubSeq(table, 1, Len(table) - 1)),
                     table[Len(table)])

Limit(rows, n) == SubSeq(rows, 1, IF Len(rows) < n THEN Len(rows) ELSE n)

\* The LIMIT of top_keywords' query.
TopLimit == 5

\* How many lines show_history prints.
HistoryShown == 10

\* SELECT keyword, count FROM resources ORDER BY count DESC LIMIT n
TopByCount(table, n) == Project(Limit(OrderByCountDesc(table), n), CountOf)

\* lines[-10:], each stripped
RecentHistory(lines) ==
  Project(SubSeq(lines,
                 IF Len(lines) > HistoryShown
                 THEN Len(lines) - HistoryShown + 1 ELSE 1,
                 Len(lines)),
          Strip)

(***************************************************************************)
(* The seed list and the inputs the handlers are run on.                   *)
(***************************************************************************)
kwScholarship == <<"jang", "hak", "geum">>
kwEnrol == <<"su", "gang", "sin", "cheong">>
kwLibrary == <<"do", "seo", "gwan">>
kwDorm == <<"gi", "suk", "sa">>
kwTuition == <<"deung", "rok", "geum">>
kwLMS == <<"L", "M", "S">>
kwLms == <<"l", "m", "s">>
kwNone == <<"x">>

Url(name) == <<name>>

\* Six of the twelve pairs of initial_data, in the order of the source.
SeedList ==
  << <<kwScholarship, Url("https://www.cbnu.ac.kr/www/contents.do?key=492")>>,
     <<kwEnrol, Url("https://eisa.cbnu.ac.kr/")>>,
     <<kwLibrary, Url("https://cbnul.chungbuk.ac.kr/")>>,
     <<kwDorm, Url("https://cia.cbnu.ac.kr/")>>,
     <<kwTuition, Url("https://www.cbnu.ac.kr/www/contents.do?key=483")>>,
     <<kwLMS, Url("https://lms.cbnu.ac.kr/")>> >>

\* The same list with a keyword named a second time, under another locator:
\* the case the OR IGNORE of init_db's INSERT is there for.
SeedListDup == SeedList \o << <<kwLibrary, Url("https://library.example/")>> >>

Seeds == {SeedList, SeedListDup}

\* The command words of main's dispatch.
W_exit == <<"e","x","i","t">>
W_quit == <<"q","u","i","t">>
W_help == <<"h","e","l","p">>
W_add == <<"a","d","d">>
W_delete == <<"d","e","l","e","t","e">>
W_list == <<"l","i","s","t">>
W_history == <<"h","i","s","t","o","r","y">>
W_top == <<"t","o","p">>
W_tag == <<"t","a","g">>
W_cat == <<"c","a","t">>
W_colleges == <<"c","o","l","l","e","g","e","s">>
W_graduate == <<"g","r","a","d","u","a","t","e">>
W_research == <<"r","e","s","e","a","r","c","h">>
W_admission == <<"a","d","m","i","s","s","i","o","n">>
W_map == <<"m","a","p">>
W_phone == <<"p","h","o","n","e">>
W_lang == <<"l","a","n","g">>
W_gui == <<"g","u","i">>

\* Commands that neither read nor write the table or the history file.
OtherWords ==
  {W_help, W_colleges, W_graduate, W_research, W_admission, W_map, W_phone,
   W_lang}

CommandWords ==
  {W_exit, W_quit, W_add, W_delete, W_list, W_history, W_top, W_tag, W_cat,
   W_gui} \cup OtherWords

\* Lines typed at main's prompt.
CliLines ==
  {W_exit, W_add, W_delete, W_list, W_history, W_tag, W_cat, W_gui, W_lang,
   <<"T","O","P">>, <<>>, <<" ">>, kwLMS, <<"do", "seo">>}

\* The commands of CliLines.
CommandLines == {l \in CliLines : Lower(Strip(l)) \in CommandWords}

TopLines == CommandLines \cup {kwLMS, <<"do", "seo">>}
FaultLines == CommandLines \cup {kwLMS, <<>>}

\* Texts of the form's entry when the search button is pressed.
GuiTexts ==
  {<<>>, <<" ">>, <<"do", "seo">>, <<"L", "_", "S">>, kwNone}

TopTexts == {<<>>, kwNone}
FaultTexts == {<<>>, <<"do", "seo">>}

\* Answers to add_resource's two prompts.
AddKeywords == {kwLMS, <<" ">> \o kwLms}
AddUrls == {Url("https://added.example/")}

\* Answers to delete_resource's prompt.
DeleteKeywords == {kwLMS, kwNone}

tagHousing == <<"ju", "geo">>

\* Answers to tag_resource's prompts and to show_by_tag's.
TagKeywords == {kwDorm, kwNone}
TagTexts == {tagHousing \o <<" ">>}
CatTexts == {tagHousing, kwNone}

\* Every keyword a row can have in the model.
Universe ==
  {SeedListDup[i][1] : i \in DOMAIN SeedListDup} \cup
  {Strip(k) : k \in AddKeywords}

(***************************************************************************)
(* What a handler leaves behind for the user: the command that ran, the    *)
(* front end it ran in, its argument, the rows it showed, whether it fell  *)
(* back on suggest_keywords, and the statements whose except branch ran.   *)
(***************************************************************************)
Shown(op, front, arg, status, rows, fallback, errors) ==
  [op |-> op, front |-> front, arg |-> arg, status |-> status, rows |-> rows,
   fallback |-> fallback, errors |-> errors]

Nothing == Shown("none", "none", <<>>, "ok", <<>>, FALSE, {})

CountIn(table, k) ==
  IF HasKeyword(table, k)
  THEN table[CHOOSE i \in DOMAIN table : table[i].keyword = k].count
  ELSE 0

Observe(s, table) ==
  [k \in Universe |-> IF CountIn(table, k) > s[k] THEN CountIn(table, k) ELSE s[k]]

\* The statements of a lookup that can raise.
LookupFaults == {"log", "select", "update", "suggest"}

\* cmd = input('> ').strip().lower()
Cmd(line) == Lower(Strip(line))

\* Cmd over the lines of the model, worked out once.
CmdOf == [line \in CliLines |-> Cmd(line)]

\* q = entry.get().strip(), over the texts of the model.
EntryOf == [text \in GuiTexts |-> Strip(text)]

Init ==
  /\ pc = "start"
  /\ initial_data \in Seeds
  /\ resources = <<>>
  /\ history = <<>>
  /\ nInit = 0
  /\ last = Nothing
  /\ seen = [k \in Universe |-> 0]

\* init_db as a step of the process, from either front end.
RunInitDb(front) ==
  /\ resources' = InitDb(initial_data)
  /\ nInit' = nInit + 1
  /\ last' = Shown("init", front, <<>>, "ok", <<>>, FALSE, {})
  /\ seen' = [k \in Universe |-> 0]
  /\ UNCHANGED <<initial_data, history>>

\* main() up to its prompt.
StartMain ==
  /\ pc = "start"
  /\ pc' = "cli"
  /\ RunInitDb("cli")

\* run_gui() as the entry point, up to mainloop().
StartGui ==
  /\ pc = "start"
  /\ pc' = "gui"
  /\ RunInitDb("gui")

\* The gui command of main: run_gui() inside the running process.
CliGui(line) ==
  /\ pc = "cli"
  /\ CmdOf[line] = W_gui
  /\ pc' = "gui"
  /\ RunInitDb("gui")

CliExit(line) ==
  /\ pc = "cli"
  /\ CmdOf[line] \in {W_exit, W_quit}
  /\ pc' = "done"
  /\ last' = Shown("exit", "cli", <<>>, "ok", <<>>, FALSE, {})
  /\ UNCHANGED <<initial_data, resources, history, nInit, seen>>

\* The window is closed: mainloop() returns, and so does the process.
GuiClose ==
  /\ pc = "gui"
  /\ pc' = "done"
  /\ last' = Shown("exit", "gui", <<>>, "ok", <<>>, FALSE, {})
  /\ UNCHANGED <<initial_data, resources, history, nInit, seen>>

\* help, colleges, graduate, research, admission, map, phone, lang.
CliOther(line) ==
  /\ pc = "cli"
  /\ CmdOf[line] \in OtherWords
  /\ last' = Shown("other", "cli", <<>>, "ok", <<>>, FALSE, {})
  /\ UNCHANGED <<pc, initial_data, resources, history, nInit, seen>>

\* add_resource; bad: the INSERT raises something other than IntegrityError.
CliAdd(line, kwIn, urlIn, bad) ==
  /\ pc = "cli"
  /\ CmdOf[line] = W_add
  /\ LET kw == Strip(kwIn)
         url == Strip(urlIn)
         status == IF bad THEN "error"
                   ELSE IF UniqueViolated(resources, kw) THEN "duplicate"
                   ELSE "ok"
     IN /\ resources' = IF status = "ok"
                        THEN Append(resources, NewRow(kw, url)) ELSE resources
        /\ last' = Shown("add", "cli", kw, status, <<>>, FALSE,
                         IF bad THEN {"insert"} ELSE {})
        /\ seen' = Observe(seen, resources')
  /\ UNCHANGED <<pc, initial_data, history, nInit>>

\* delete_resource
CliDelete(line, kwIn, bad) ==
  /\ pc = "cli"
  /\ CmdOf[line] = W_delete
  /\ LET kw == Strip(kwIn)
         status == IF bad THEN "error"
                   ELSE IF HasKeyword(resources, kw) THEN "ok" ELSE "notfound"
     IN /\ resources' = IF bad THEN resources ELSE DeleteRow(resources, kw)
        /\ last' = Shown("delete", "cli", kw, status, <<>>, FALSE,
                         IF bad THEN {"delete"} ELSE {})
        /\ seen' = Observe(seen, resources')
  /\ UNCHANGED <<pc, initial_data, history, nInit>>

\* tag_resource
CliTag(line, kwIn, tagIn, bad) ==
  /\ pc = "cli"
  /\ CmdOf[line] = W_tag
  /\ LET kw == Strip(kwIn)
         tag == Strip(tagIn)
         status == IF bad THEN "error"
                   ELSE IF HasKeyword(resources, kw) THEN "ok" ELSE "notfound"
     IN /\ resources' = IF bad THEN resources ELSE SetTag(resources, kw, tag)
        /\ last' = Shown("tag", "cli", kw, status, <<>>, FALSE,
                         IF bad THEN {"update"} ELSE {})
        /\ seen' = Observe(seen, resources')
  /\ UNCHANGED <<pc, initial_data, history, nInit>>

\* A handler that only reads the table and prints rows.
CliQuery(op, arg, rows, bad) ==
  /\ pc = "cli"
  /\ last' = Shown(op, "cli", arg,
                   IF bad THEN "error" ELSE IF rows = <<>> THEN "empty" ELSE "ok",
                   IF bad THEN <<>> ELSE rows, FALSE,
                   IF bad THEN {op} ELSE {})
  /\ UNCHANGED <<pc, initial_data, resources, history, nInit, seen>>

\* list_resources
CliList(line, bad) ==
  /\ CmdOf[line] = W_list
  /\ CliQuery("list", <<>>, resources, bad)

\* top_keywords
CliTop(line, bad) ==
  /\ CmdOf[line] = W_top
  /\ CliQuery("top", <<>>, TopByCount(resources, TopLimit), bad)

\* show_by_tag
CliCat(line, tagIn, bad) ==
  /\ CmdOf[line] = W_cat
  /\ CliQuery("cat", Strip(tagIn), ByTag(resources, Strip(tagIn)), bad)

\* show_history; bad: the file cannot be read.
CliHistory(line, bad) ==
  /\ CmdOf[line] = W_history
  /\ CliQuery("history", <<>>, RecentHistory(history), bad)

\* The queries the model's lines and texts come to.
Queries == {CmdOf[l] : l \in CliLines} \cup {EntryOf[t] : t \in GuiTexts}

\* Per query, the keywords the WHERE clause accepts, worked out once.
Hits == [q \in Queries |-> {k \in Universe : Contains(k, q)}]

\* SELECT keyword, url FROM resources WHERE keyword LIKE '%query%'
SearchResources(table, query) ==
  Project(SelectSeq(table, LAMBDA r : r.keyword \in Hits[query]), PairOf)

\* What search_resources returns to its caller: the rows, or [] when the
\* SELECT raised.
Returned(table, query, flt) ==
  IF "select" \in flt THEN <<>> ELSE SearchResources(table, query)

\* The table after the loop over the matches; an update_count that raises
\* leaves its row alone.
Counted(table, matches, flt) ==
  IF "update" \in flt THEN table ELSE UpdateAll(table, matches)

\* No row the query hits has reached the model's bound on counts.
BelowMaxCount(table, query) ==
  \A i \in DOMAIN table :
     table[i].keyword \in Hits[query] => table[i].count < MaxCount

\* The statements among flt that ran in a lookup and raised.
Raised(flt, matches) ==
  {f \in flt : \/ f \in {"log", "select"}
               \/ f = "update" /\ matches # <<>>
               \/ f = "suggest" /\ matches = <<>>}

\* log_search: one line, the query, appended to HISTORY_FILE.
LogSearch(lines, query, flt) ==
  IF "log" \in flt THEN lines ELSE Append(lines, query)

\* The else branch of main's dispatch: a plain lookup.
CliLookup(line, flt, logMax) ==
  /\ pc = "cli"
  /\ CmdOf[line] \notin CommandWords
  /\ Len(history) < logMax
  /\ BelowMaxCount(resources, CmdOf[line])
  /\ LET cmd == CmdOf[line]
         matches == Returned(resources, cmd, flt)
     IN /\ history' = LogSearch(history, cmd, flt)
        /\ resources' = Counted(resources, matches, flt)
        /\ last' = Shown("search", "cli", cmd,
                         IF matches = <<>> THEN "empty" ELSE "ok",
                         matches, matches = <<>>, Raised(flt, matches))
        /\ seen' = Observe(seen, resources')
  /\ UNCHANGED <<pc, initial_data, nInit>>

\* gui_search: an empty entry clears the list and returns.
GuiGuard(q) == q = <<>>

\* gui_search, the command of the search button.
GuiSearch(text, flt) ==
  /\ pc = "gui"
  /\ "log" \notin flt
  /\ LET q == EntryOf[text]
         matches == Returned(resources, q, flt)
     IN IF GuiGuard(q)
        THEN /\ flt = {}
             /\ last' = Shown("search", "gui", q, "skipped", <<>>, FALSE, {})
             /\ UNCHANGED <<resources, seen>>
        ELSE /\ BelowMaxCount(resources, q)
             /\ resources' = Counted(resources, matches, flt)
             /\ last' = Shown("search", "gui", q,
                              IF matches = <<>> THEN "empty" ELSE "ok",
                              matches, matches = <<>>, Raised(flt, matches))
             /\ seen' = Observe(seen, resources')
  /\ UNCHANGED <<pc, initial_data, history, nInit>>

(***************************************************************************)
(* The next-state relation, over the faults the storage is let to have.    *)
(***************************************************************************)
NextWith(LF, B, Lines, Texts, logMax) ==
  \/ StartMain
  \/ StartGui
  \/ GuiClose
  \/ \E text \in Texts, flt \in LF : GuiSearch(text, flt)
  \/ \E line \in Lines :
       \/ CliGui(line)
       \/ CliExit(line)
       \/ CliOther(line)
       \/ \E flt \in LF : CliLookup(line, flt, logMax)
       \/ \E bad \in B :
            \/ CliList(line, bad)
            \/ CliTop(line, bad)
            \/ CliHistory(line, bad)
            \/ \E tagIn \in CatTexts : CliCat(line, tagIn, bad)
            \/ \E kwIn \in DeleteKeywords : CliDelete(line, kwIn, bad)
            \/ \E kwIn \in AddKeywords, urlIn \in AddUrls :
                 CliAdd(line, kwIn, urlIn, bad)
            \/ \E kwIn \in TagKeywords, tagIn \in TagTexts :
                 CliTag(line, kwIn, tagIn, bad)

\* The storage engine and the history file work.
Next == NextWith({{}}, {FALSE}, CliLines, GuiTexts, MaxLog)

Spec == Init /\ [][Next]_vars

\* Any statement may raise.
NextFault ==
  NextWith({{}} \cup {{f} : f \in LookupFaults}, BOOLEAN, FaultLines,
           FaultTexts, MaxLogFault)

\* A longer session at the prompt, on lookups that hit one keyword each.
NextTop == NextWith({{}}, {FALSE}, TopLines, TopTexts, MaxLogTop)

SpecTop == Init /\ [][NextTop]_vars

SpecFault == Init /\ [][NextFault]_vars

TypeOK ==
  /\ pc \in {"start", "cli", "gui", "done"}
  /\ initial_data \in Seeds
  /\ nInit \in 0..2
  /\ \A i \in DOMAIN resources :
       resources[i].keyword \in Universe /\ resources[i].count \in 0..MaxCount

(***************************************************************************)
(* The properties.                                                         *)
(***************************************************************************)
Keywords(table) == {table[i].keyword : i \in DOMAIN table}

Unique(table) ==
  \A i, j \in DOMAIN table : table[i].keyword = table[j].keyword => i = j

RowOf(table, k) == table[CHOOSE i \in DOMAIN table : table[i].keyword = k]

\* C1: at most one row per keyword in every reachable state, and an add of a
\* keyword that has a row changes nothing in the table and is answered as a
\* duplicate.
C1_Uniqueness ==
  /\ []Unique(resources)
  /\ [][(last'.op = "add" /\ HasKeyword(resources, last'.arg))
          => (resources' = resources /\ last'.status = "duplicate")]_vars

\* An add of LMS was refused while the LMS row had a count above 0 and its
\* seed locator.
C1_Witness ==
  /\ last.op = "add" /\ last.status = "duplicate" /\ last.arg = kwLMS
  /\ HasKeyword(resources, kwLMS)
  /\ RowOf(resources, kwLMS).count > 0
  /\ RowOf(resources, kwLMS).url # Url("https://added.example/")

Matched(shown) == {shown.rows[i][1] : i \in DOMAIN shown.rows}

\* C2: a lookup step adds exactly 1 to the count of every keyword among its
\* matches and leaves every other row's count, and the set of rows, alone.
C2_CountPlusOne ==
  [][(last'.op = "search")
       => /\ Keywords(resources') = Keywords(resources)
          /\ \A k \in Keywords(resources) :
               CountIn(resources', k) =
                 CountIn(resources, k) + (IF k \in Matched(last') THEN 1 ELSE 0)
    ]_vars

\* A lookup matched two keywords at once (LMS and lms), each now counted,
\* beside rows it did not match.
C2_Witness ==
  /\ last.op = "search"
  /\ Matched(last) = {kwLMS, kwLms}
  /\ CountIn(resources, kwLMS) >= 1 /\ CountIn(resources, kwLms) >= 1
  /\ \E k \in Keywords(resources) : k \notin Matched(last)

\* C3: a lookup whose query is empty once stripped shows no match, in either
\* front end.
C3_EmptyQueryNoMatch ==
  (last.op = "search" /\ Strip(last.arg) = <<>>) => last.rows = <<>>

\* k holds q as a run of its characters, compared exactly.
LiteralSubstring(k, q) ==
  \E i \in 0..Len(k) :
     i + Len(q) <= Len(k) /\ SubSeq(k, i + 1, i + Len(q)) = q

\* A lookup that ran its SELECT, the SELECT not raising.
Searched(shown) ==
  shown.op = "search" /\ shown.status # "skipped" /\ "select" \notin shown.errors

\* rows holds the (keyword, url) pair of each keyword of ks once, and no
\* other pair.
ExactlyRowsOf(rows, ks) ==
  /\ {rows[i] : i \in DOMAIN rows} = {PairOf(RowOf(resources, k)) : k \in ks}
  /\ Len(rows) = Cardinality(ks)

\* C4 as stated: the rows a lookup returns are exactly the rows whose keyword
\* holds the query as a case-sensitive literal substring.
C4_LiteralCaseSensitive ==
  Searched(last)
    => ExactlyRowsOf(last.rows,
                     {k \in Keywords(resources) : LiteralSubstring(k, last.arg)})

\* Two characters that are one ASCII letter, in either case, or the same.
SameLetter(a, b) ==
  \/ a = b
  \/ \E i \in DOMAIN UpperChars : {a, b} = {UpperChars[i], LowerChars[i]}

\* The pattern %q% matches k: a stretch of k is cut into one piece per
\* character of q, any piece for %, one character for _, one character that
\* is the same letter for anything else.
Within(q, k) ==
  \E a \in 0..Len(k) : \E c \in [1..Len(q) -> 0..Len(k)] :
     \A i \in 1..Len(q) :
        LET from == IF i = 1 THEN a ELSE c[i - 1]
        IN /\ from <= c[i]
           /\ \/ q[i] = "%"
              \/ /\ c[i] = from + 1
                 /\ q[i] = "_" \/ SameLetter(q[i], k[c[i]])

PatternHits == [q \in Queries |-> {k \in Universe : Within(q, k)}]

\* C4 amended: the rows a lookup returns are exactly the rows whose keyword
\* matches the pattern %query%, where % in the query is any run of
\* characters, _ is any one character, and any other character matches
\* itself or the same ASCII letter in the other case.
C4_PatternCaseFolded ==
  Searched(last)
    => ExactlyRowsOf(last.rows,
                     {k \in Keywords(resources) : k \in PatternHits[last.arg]})

\* The query lms, as main lowers it, returned the row of LMS.
C4_Witness ==
  /\ Searched(last)
  /\ last.arg = kwLms
  /\ \E i \in DOMAIN last.rows : last.rows[i][1] = kwLMS

\* C5: a process runs init_db once, before anything else.
C5_ResetOnce == nInit <= 1

\* C6: every lookup that is carried out appends its query, once, to the
\* history; no other command writes the history; and the history command
\* shows the last HistoryShown lines.
C6_EveryLookupLogged ==
  [][/\ (last'.op = "search" /\ last'.status # "skipped")
          => history' = Append(history, last'.arg)
     /\ (last'.op # "search") => history' = history
     /\ (last'.op = "history")
          => last'.rows =
               SubSeq(history,
                      IF Len(history) > HistoryShown
                      THEN Len(history) - HistoryShown + 1 ELSE 1,
                      Len(history))
    ]_vars

\* C7: a lookup whose SELECT raised is answered as a failure, not as an
\* empty result, and does not go on to the suggestions.
C7_FailureSurfaced ==
  (last.op = "search" /\ "select" \in last.errors)
    => (last.status = "error" /\ ~last.fallback)

\* C8 as stated: between two runs of init_db a keyword never shows a count
\* below one it showed before.
C8_NeverBelowSeen ==
  \A k \in Keywords(resources) : CountIn(resources, k) >= seen[k]

\* C8 amended: counts are naturals, a row starts at 0, and no step but
\* init_db lowers the count of a row that is there before and after it.
C8_NoDecreaseWhileStored ==
  /\ [](\A i \in DOMAIN resources : resources[i].count \in Nat)
  /\ [][/\ \A k \in Keywords(resources') \ Keywords(resources) :
             CountIn(resources', k) = 0
        /\ (last'.op # "init")
             => \A k \in Keywords(resources) \cap Keywords(resources') :
                  CountIn(resources', k) >= CountIn(resources, k)
       ]_vars

\* LMS, once counted, was deleted and added again: its row is back at 0;
\* another row has been counted twice.
C8_Witness ==
  /\ HasKeyword(resources, kwLMS)
  /\ CountIn(resources, kwLMS) = 0
  /\ seen[kwLMS] > 0
  /\ \E k \in Keywords(resources) : CountIn(resources, k) >= 2

\* Where keyword k comes first in the seed.
FirstAt(seed, k) == CHOOSE i \in DOMAIN seed :
  seed[i][1] = k /\ \A j \in DOMAIN seed : seed[j][1] = k => i <= j

\* C9: right after init_db the table holds one row per keyword of the seed,
\* with the locator of the keyword's first pair, count 0 and tag '', the
\* rows in the order of those first pairs: the seed alone decides it.
C9_Reseed ==
  (last.op = "init")
    => /\ Keywords(resources) = {initial_data[i][1] : i \in DOMAIN initial_data}
       /\ Unique(resources)
       /\ \A i \in DOMAIN resources :
            /\ resources[i].url =
                 initial_data[FirstAt(initial_data, resources[i].keyword)][2]
            /\ resources[i].count = 0
            /\ resources[i].tag = <<>>
       /\ \A i, j \in DOMAIN resources :
            i < j => FirstAt(initial_data, resources[i].keyword)
                       < FirstAt(initial_data, resources[j].keyword)

\* init_db has run a second time in a process that had looked keywords up,
\* on the seed that names a keyword twice.
C9_Witness ==
  /\ last.op = "init"
  /\ nInit = 2
  /\ history # <<>>
  /\ initial_data = SeedListDup

\* C10: top shows at most TopLimit (keyword, count) pairs, each the count of
\* a different row, in descending count; no row left out counts more than a
\* row shown; and with LMS at 3, the library at 1 and the rest at 0 the
\* first two pairs are (LMS, 3), (library, 1).
C10_Top ==
  (last.op = "top")
    => LET rows == last.rows
       IN /\ Len(rows) <= TopLimit
          /\ Len(rows) = Len(Limit(resources, TopLimit))
          /\ \A i \in DOMAIN rows :
               /\ HasKeyword(resources, rows[i][1])
               /\ rows[i][2] = CountIn(resources, rows[i][1])
          /\ \A i, j \in DOMAIN rows :
               /\ i < j => rows[i][2] >= rows[j][2]
               /\ rows[i][1] = rows[j][1] => i = j
          /\ \A k \in Keywords(resources) :
               (\A i \in DOMAIN rows : rows[i][1] # k)
                 => \A i \in DOMAIN rows : CountIn(resources, k) <= rows[i][2]
          /\ (/\ CountIn(resources, kwLMS) = 3
              /\ CountIn(resources, kwLibrary) = 1
              /\ \A k \in Keywords(resources) \ {kwLMS, kwLibrary} :
                   CountIn(resources, k) = 0)
               => SubSeq(rows, 1, 2) = << <<kwLMS, 3>>, <<kwLibrary, 1>> >>

\* top ran on more rows than it shows, after three lookups of LMS and one of
\* the library.
C10_Witness ==
  /\ last.op = "top"
  /\ Len(resources) > TopLimit
  /\ CountIn(resources, kwLMS) = 3
  /\ CountIn(resources, kwLibrary) = 1
  /\ \A k \in Keywords(resources) \ {kwLMS, kwLibrary} : CountIn(resources, k) = 0

====
